---------------------------- MODULE Spec2Model ----------------------------
(***************************************************************************)
(* KomootExport: the GPX track merger (merge_by_date.go) and the GPX->KML  *)
(* converter (gpx2kml.go), each a sequential command-line program.         *)
(*                                                                         *)
(* Conventions.  float64 coordinates are modelled by even integers, so     *)
(* that the midpoint (a + b) / 2 is exact, as it is for the float64 values *)
(* they stand for.  A time.Time is an integer count of ticks, TicksPerDay  *)
(* ticks to the day; tick 0 of a day is 00:00:00.000 and the last tick of  *)
(* a day is its last representable timestamp (23:59:59).  A string that    *)
(* is parsed (a date argument, a <time> element) is a record of its        *)
(* layout and the value it denotes, and parsing succeeds only for the      *)
(* layout the code asks for.                                               *)
(***************************************************************************)
EXTENDS Integers, Sequences, FiniteSets, TLC

\* ------------------------------------------------------------- bounds
MaxFiles == 3
TicksPerDay == 4
MaxTracks == 2
MaxSegments == 3
MaxTours == 2
MaxCovers == 1
MaxRuns == 2

VARIABLES
    \* merger (merge_by_date.go)
    args,          \* flag.Args(): the positional arguments
    connectGaps,   \* the -connect flag
    tours,         \* the .gpx files under tours/, in walk order
    outFile,       \* the file at the output path
    pc,            \* position of main
    startDate,     \* parsed start date (ticks)
    endDate,       \* parsed end date + 24h (ticks)
    gpxFiles,      \* paths collected by filepath.Walk (indices into tours)
    fileIdx,       \* index of the next file of the parse loop
    rides,         \* []RideInfo
    mergedTrack,   \* the Segments of the single merged track
    stdout,        \* what was printed with fmt.Printf / fmt.Println
    logged,        \* what was logged with log.Printf / log.Fatalf
    exit,          \* process exit status; -1 while running
    \* converter (gpx2kml.go)
    cvArgs,        \* flag.Args(): the number of positional arguments
    showWaypoints, \* the -waypoints flag
    cvInput,       \* the file at the input path
    cvPc,          \* position of main
    gpx,           \* the parsed GpxRoot: its Tracks
    trackIdx,      \* the track the conversion loop is at
    segIdx,        \* the segment of that track the loop is at
    trackNum,      \* trackNum
    placemarks,    \* kml.Document.Placemarks
    kmlFile,       \* the file at the output path
    cvLogged,      \* what was printed or logged
    cvExit,        \* process exit status; -1 while running
    \* downloader (main.go)
    listing,           \* the tours the server lists, in listing order
    includeTitleInDir, \* the --includeTitleInDir flag
    dirs,              \* the directories under toursDir
    saved,             \* the files downloaded into them: <<directory, name>>
    runs,              \* how many times the downloader was started
    dlPc,              \* position of main and of DownloadTour
    dlTours,           \* tours, as FetchTours returned them
    dlIdx,             \* the tour the download loop is at
    coverIdx,          \* i of the loop over t.coverImages
    errs,              \* errs of DownloadTour: TRUE for a non-nil error
    fetched,           \* the fetches of this run: tour, file, failed or not
    dlLogged,          \* what this run logged
    dlExit             \* process exit status; -1 while running

mvars == <<args, connectGaps, tours, outFile, pc, startDate, endDate,
           gpxFiles, fileIdx, rides, mergedTrack, stdout, logged, exit>>

cvars == <<cvArgs, showWaypoints, cvInput, cvPc, gpx, trackIdx, segIdx,
           trackNum, placemarks, kmlFile, cvLogged, cvExit>>

dvars == <<listing, includeTitleInDir, dirs, saved, runs, dlPc, dlTours,
           dlIdx, coverIdx, errs, fetched, dlLogged, dlExit>>

vars == <<mvars, cvars, dvars>>

\* ------------------------------------------------------------ strings
GapName == "Gap Connection"
GapDesc == "Connected gap between rides"

\* Layouts of <time> strings.  Only the first is the layout passed to
\* time.Parse; a string in the second (no milliseconds) denotes an instant
\* but does not parse.
MillisLayout == "2006-01-02T15:04:05.000Z"
SecondsLayout == "2006-01-02T15:04:05Z"

NoTime == [layout |-> "", inst |-> 0]
GoodTime(t) == [layout |-> MillisLayout, inst |-> t]
BadTime(t) == [layout |-> SecondsLayout, inst |-> t]

\* time.Parse("2006-01-02T15:04:05.000Z", s): the zero Time and an error
\* unless s is in that layout.
ParseTime(s) ==
    IF s.layout = MillisLayout THEN [err |-> FALSE, t |-> s.inst]
    ELSE [err |-> TRUE, t |-> 0]

\* time.Parse("2006-01-02", s): midnight UTC of the day.
ParseDate(s) ==
    IF s.kind = "date" THEN [err |-> FALSE, t |-> s.day * TicksPerDay]
    ELSE [err |-> TRUE, t |-> 0]

\* endDate.Add(24 * time.Hour)
SameDay(t) == t

AddDay(t) == t + TicksPerDay

\* ------------------------------------------------------------ GPX data
TrackPoint(lat, lon, time) ==
    [Latitude |-> lat, Longitude |-> lon, Elevation |-> 0,
     Time |-> time, Name |-> "", Desc |-> ""]

\* var p TrackPoint: the zero value
ZeroPoint == TrackPoint(0, 0, NoTime)

TrackSegment(points) == [Points |-> points]
Track(name, segments) == [Name |-> name, Segments |-> segments]

\* ---------------------------------------------------- merger: the inputs
DateArg(d) == [kind |-> "date", day |-> d]
JunkArg == [kind |-> "junk", day |-> 0]
PathArg == [kind |-> "path", day |-> 0]

\* The window is the single day 1: [TicksPerDay, 2 * TicksPerDay).
GoodArgs == <<DateArg(1), DateArg(1), PathArg>>
BadArgLists ==
    { <<JunkArg, DateArg(1), PathArg>>,
      <<DateArg(1), JunkArg, PathArg>>,
      <<DateArg(1), DateArg(1)>> }

\* Timestamps are drawn from the last tick before the window, its first tick
\* (00:00:00.000 of the start date), the ticks after it, the last tick of the
\* end date (23:59:59) and 00:00:00.000 of the day after.
\* Longitudes are unique per file and point: 2 * (10 * file + position).
Lon(f, k) == 2 * (10 * f + k)

GpxFile(tracks) == [kind |-> "gpx", Tracks |-> tracks]
UnreadableFile == [kind |-> "unreadable", Tracks |-> <<>>]
MalformedFile == [kind |-> "malformed", Tracks |-> <<>>]

\* Files that differ in where their timestamps are and what they say: one
\* track, one segment, two points.
TwoPointFile(f, s1, s2) ==
    GpxFile(<<Track("ride",
        <<TrackSegment(<<TrackPoint(2, Lon(f, 1), s1),
                         TrackPoint(4, Lon(f, 2), s2)>>)>>)>>)

TimingFiles(f) ==
    <<UnreadableFile, MalformedFile,
      TwoPointFile(f, NoTime, NoTime),
      TwoPointFile(f, BadTime(TicksPerDay + 1), NoTime),
      TwoPointFile(f, NoTime, GoodTime(TicksPerDay + 1)),
      TwoPointFile(f, BadTime(TicksPerDay + 1), GoodTime(TicksPerDay + 2)),
      TwoPointFile(f, GoodTime(TicksPerDay - 1), NoTime),
      TwoPointFile(f, GoodTime(TicksPerDay), NoTime),
      TwoPointFile(f, GoodTime(TicksPerDay + 1), NoTime),
      TwoPointFile(f, GoodTime(2 * TicksPerDay - 1), NoTime),
      TwoPointFile(f, GoodTime(2 * TicksPerDay), NoTime)>>

\* Files that differ in shape and in which points lie on the equator; the
\* first point carries the timestamp.  z1, z2: latitude of the two points.
\* The last file of GeometryFiles is of the day after the window.
ShapeOneSegment(f, t, z1, z2) ==
    GpxFile(<<Track("ride",
        <<TrackSegment(<<TrackPoint(z1, Lon(f, 1), GoodTime(t)),
                         TrackPoint(z2, Lon(f, 2), NoTime)>>)>>)>>)

ShapeTwoSegments(f, t, z1, z2) ==
    GpxFile(<<Track("ride",
        <<TrackSegment(<<TrackPoint(z1, Lon(f, 1), GoodTime(t))>>),
          TrackSegment(<<TrackPoint(z2, Lon(f, 2), NoTime)>>)>>)>>)

ShapeTwoTracks(f, t, z1, z2) ==
    GpxFile(<<Track("a", <<TrackSegment(<<TrackPoint(z1, Lon(f, 1), GoodTime(t))>>)>>),
              Track("b", <<TrackSegment(<<TrackPoint(z2, Lon(f, 2), NoTime)>>)>>)>>)

ShapeLeadingEmpty(f, t, z1) ==
    GpxFile(<<Track("ride",
        <<TrackSegment(<<>>),
          TrackSegment(<<TrackPoint(z1, Lon(f, 1), GoodTime(t))>>)>>)>>)

GeometryFiles(f, t) ==
    <<ShapeOneSegment(f, t, 2, 4), ShapeOneSegment(f, t, 0, 4),
      ShapeOneSegment(f, t, 2, 0),
      ShapeTwoSegments(f, t, 2, 4),
      ShapeTwoTracks(f, t, 2, 4), ShapeTwoTracks(f, t, 0, 4),
      ShapeLeadingEmpty(f, t, 2), ShapeLeadingEmpty(f, t, 0),
      ShapeTwoSegments(f, 2 * TicksPerDay, 2, 4)>>

\* How the rides of n files follow each other in time, all inside the
\* window: in walk order, in reverse, rotated by one, or the first two at
\* the same instant and the others after them.
TimeOrders(n) ==
    { [f \in 1..n |-> TicksPerDay + f],
      [f \in 1..n |-> TicksPerDay + n + 1 - f],
      [f \in 1..n |-> TicksPerDay + 1 + (f % n)],
      [f \in 1..n |-> IF f <= 2 THEN TicksPerDay + 1 ELSE TicksPerDay + f - 1] }

OutAbsent == [state |-> "absent", tracks |-> <<>>]
OutOld == [state |-> "old", tracks |-> <<>>]
OutWritten(tracks) == [state |-> "written", tracks |-> tracks]

\* The downloader, not run.
DownIdle ==
    /\ listing = <<>>
    /\ includeTitleInDir = FALSE
    /\ dirs = {}
    /\ saved = {}
    /\ runs = 0
    /\ dlPc = "idle"
    /\ dlTours = <<>>
    /\ dlIdx = 1
    /\ coverIdx = 0
    /\ errs = <<>>
    /\ fetched = <<>>
    /\ dlLogged = <<>>
    /\ dlExit = -1

\* The converter, not run.
ConvIdle ==
    /\ cvArgs = 0
    /\ showWaypoints = FALSE
    /\ cvInput = UnreadableFile
    /\ cvPc = "idle"
    /\ gpx = <<>>
    /\ trackIdx = 1
    /\ segIdx = 1
    /\ trackNum = 0
    /\ placemarks = <<>>
    /\ kmlFile = OutAbsent
    /\ cvLogged = <<>>
    /\ cvExit = -1

MergeInit ==
    /\ ConvIdle
    /\ DownIdle
    /\ \/ /\ args = GoodArgs
          /\ \E n \in 0..MaxFiles :
               \E c \in [1..n -> DOMAIN TimingFiles(1)] :
                 tours = [f \in 1..n |-> TimingFiles(f)[c[f]]]
          /\ outFile \in IF Len(tours) <= 1 THEN {OutAbsent, OutOld} ELSE {OutOld}
       \/ /\ args = GoodArgs
          /\ \E n \in 1..MaxFiles :
               \E order \in TimeOrders(n) :
                 \E c \in [1..n -> DOMAIN GeometryFiles(1, 0)] :
                   tours = [f \in 1..n |-> GeometryFiles(f, order[f])[c[f]]]
          /\ outFile = OutOld
       \/ /\ args \in BadArgLists
          /\ \E c \in DOMAIN TimingFiles(1) : tours = <<TimingFiles(1)[c]>>
          /\ outFile \in {OutAbsent, OutOld}
    /\ connectGaps \in BOOLEAN
    /\ pc = "args"
    /\ startDate = 0
    /\ endDate = 0
    /\ gpxFiles = <<>>
    /\ fileIdx = 1
    /\ rides = <<>>
    /\ mergedTrack = <<>>
    /\ stdout = <<>>
    /\ logged = <<>>
    /\ exit = -1


\* ------------------------------------------------- merger: the program
Msg(m, n) == [msg |-> m, n |-> n]

\* t.After(u), t.Before(u)
AfterInclusive(t, u) == t >= u

After(t, u) == t > u

BeforeInclusive(t, u) == t <= u

Before(t, u) == t < u

\* filepath.Base(filepath.Dir(path)): the tour directory of file f
RideName(f) == f

\* fmt.Sprintf("Merged rides %s to %s", startDateStr, endDateStr)
MergedName(a) ==
    "Merged rides day" \o ToString(a[1].day) \o " to day" \o ToString(a[2].day)

\* The innermost loop of the timestamp search: `continue` after a failed
\* time.Parse goes on to the next point of the segment.
RECURSIVE ScanPoints(_, _, _)
ScanPoints(points, k, st) ==
    IF k > Len(points) THEN st
    ELSE IF points[k].Time.layout # ""
    THEN LET r == ParseTime(points[k].Time) IN
         IF r.err
         THEN ScanPoints(points, k + 1,
                         [st EXCEPT !.rideTime = r.t, !.errs = @ + 1])
         ELSE [st EXCEPT !.rideTime = r.t, !.found = TRUE]
    ELSE ScanPoints(points, k + 1, st)

RECURSIVE ScanSegments(_, _, _)
ScanSegments(segments, k, st) ==
    IF k > Len(segments) THEN st
    ELSE LET s2 == ScanPoints(segments[k].Points, 1, st) IN
         IF s2.found THEN s2 ELSE ScanSegments(segments, k + 1, s2)

RECURSIVE ScanTracks(_, _, _)
ScanTracks(tracks, k, st) ==
    IF k > Len(tracks) THEN st
    ELSE LET s2 == ScanSegments(tracks[k].Segments, 1, st) IN
         IF s2.found THEN s2 ELSE ScanTracks(tracks, k + 1, s2)

\* "Extract first timestamp to determine ride date"
FindRideTime(tracks) ==
    ScanTracks(tracks, 1, [found |-> FALSE, rideTime |-> 0, errs |-> 0])

RideInfo(f, t, tracks) ==
    [FilePath |-> f, Name |-> RideName(f), Date |-> t, GPX |-> tracks]

\* flag.Args(), the two time.Parse calls and endDate.Add
ParseArgs ==
    /\ pc = "args"
    /\ IF Len(args) # 3
       THEN /\ stdout' = Append(stdout, Msg("Usage", 0))
            /\ exit' = 1
            /\ pc' = "done"
            /\ UNCHANGED <<startDate, endDate, logged>>
       ELSE IF ParseDate(args[1]).err
       THEN /\ logged' = Append(logged, Msg("Invalid start date format", 0))
            /\ exit' = 1
            /\ pc' = "done"
            /\ UNCHANGED <<startDate, endDate, stdout>>
       ELSE IF ParseDate(args[2]).err
       THEN /\ logged' = Append(logged, Msg("Invalid end date format", 0))
            /\ exit' = 1
            /\ pc' = "done"
            /\ startDate' = ParseDate(args[1]).t
            /\ UNCHANGED <<endDate, stdout>>
       ELSE /\ startDate' = ParseDate(args[1]).t
            /\ endDate' = AddDay(ParseDate(args[2]).t)
            /\ pc' = "walk"
            /\ UNCHANGED <<stdout, logged, exit>>
    /\ UNCHANGED <<args, connectGaps, tours, outFile, gpxFiles, fileIdx,
                   rides, mergedTrack>>
    /\ UNCHANGED <<cvars, dvars>>

\* filepath.Walk("tours", ...): the paths ending in .gpx, or an error
WalkFails ==
    /\ pc = "walk"
    /\ logged' = Append(logged, Msg("Error walking tours directory", 0))
    /\ exit' = 1
    /\ pc' = "done"
    /\ UNCHANGED <<args, connectGaps, tours, outFile, startDate, endDate,
                   gpxFiles, fileIdx, rides, mergedTrack, stdout>>
    /\ UNCHANGED <<cvars, dvars>>

WalkTours ==
    /\ pc = "walk"
    /\ gpxFiles' = [i \in 1..Len(tours) |-> i]
    /\ pc' = "scan"
    /\ UNCHANGED <<args, connectGaps, tours, outFile, startDate, endDate,
                   fileIdx, rides, mergedTrack, stdout, logged, exit>>
    /\ UNCHANGED <<cvars, dvars>>

\* What one iteration of the parse loop does on a file that cannot be read.
AbortUnreadable(f) ==
    /\ logged' = Append(logged, Msg("Error reading", f))
    /\ exit' = 1
    /\ pc' = "done"
    /\ UNCHANGED <<rides, stdout>>

SkipUnreadable(f) ==
    /\ logged' = Append(logged, Msg("Error reading", f))
    /\ UNCHANGED <<rides, stdout, exit, pc>>

\* One iteration of `for _, filePath := range gpxFiles`
ScanFile ==
    /\ pc = "scan"
    /\ fileIdx <= Len(gpxFiles)
    /\ LET f == gpxFiles[fileIdx]
           file == tours[f]
           st == FindRideTime(file.Tracks)
           log == logged \o [i \in 1..st.errs |-> Msg("Error parsing time", f)]
       IN  IF file.kind = "unreadable"
           THEN SkipUnreadable(f)
           ELSE IF file.kind = "malformed"
           THEN /\ logged' = Append(logged, Msg("Error parsing", f))
                /\ UNCHANGED <<rides, stdout, exit, pc>>
           ELSE IF ~st.found
           THEN /\ logged' = Append(log, Msg("No timestamp found", f))
                /\ UNCHANGED <<rides, stdout, exit, pc>>
           ELSE IF After(st.rideTime, startDate) /\ Before(st.rideTime, endDate)
           THEN /\ rides' = Append(rides, RideInfo(f, st.rideTime, file.Tracks))
                /\ stdout' = Append(stdout, Msg("Found ride", f))
                /\ logged' = log
                /\ UNCHANGED <<exit, pc>>
           ELSE /\ logged' = log
                /\ UNCHANGED <<rides, stdout, exit, pc>>
    /\ fileIdx' = fileIdx + 1
    /\ UNCHANGED <<args, connectGaps, tours, outFile, startDate, endDate,
                   gpxFiles, mergedTrack>>
    /\ UNCHANGED <<cvars, dvars>>

\* if len(rides) == 0 { ...; return }
NoRidesWritesEmpty ==
    /\ pc = "scan"
    /\ fileIdx > Len(gpxFiles)
    /\ Len(rides) = 0
    /\ stdout' = Append(stdout, Msg("No rides found", 0))
    /\ outFile' = OutWritten(<<>>)
    /\ exit' = 0
    /\ pc' = "done"
    /\ UNCHANGED <<args, connectGaps, tours, startDate, endDate,
                   gpxFiles, fileIdx, rides, mergedTrack, logged>>
    /\ UNCHANGED <<cvars, dvars>>

NoRides ==
    /\ pc = "scan"
    /\ fileIdx > Len(gpxFiles)
    /\ Len(rides) = 0
    /\ stdout' = Append(stdout, Msg("No rides found", 0))
    /\ exit' = 0
    /\ pc' = "done"
    /\ UNCHANGED <<args, connectGaps, tours, outFile, startDate, endDate,
                   gpxFiles, fileIdx, rides, mergedTrack, logged>>
    /\ UNCHANGED <<cvars, dvars>>

\* sort.Slice(rides, func(i, j) { return rides[i].Date.Before(rides[j].Date) }):
\* not stable, so any arrangement in which no ride is before an earlier one.
Unsorted(rs) == {rs}

SortSlice(rs) ==
    { [k \in 1..Len(rs) |-> rs[p[k]]] :
        p \in { q \in Permutations(1..Len(rs)) :
                  \A i, j \in 1..Len(rs) :
                      i < j => ~Before(rs[q[j]].Date, rs[q[i]].Date) } }

SortRides ==
    /\ pc = "scan"
    /\ fileIdx > Len(gpxFiles)
    /\ Len(rides) # 0
    /\ rides' \in SortSlice(rides)
    /\ pc' = "merge"
    /\ UNCHANGED <<args, connectGaps, tours, outFile, startDate, endDate,
                   gpxFiles, fileIdx, mergedTrack, stdout, logged, exit>>
    /\ UNCHANGED <<cvars, dvars>>

\* "Get first point of current ride": the first point of the first non-empty
\* segment of a track; the search goes on to the next track while the point
\* found so far has latitude 0.
RECURSIVE FirstOfSegments(_, _, _)
FirstOfSegments(segments, k, firstPoint) ==
    IF k > Len(segments) THEN firstPoint
    ELSE IF Len(segments[k].Points) > 0 THEN segments[k].Points[1]
    ELSE FirstOfSegments(segments, k + 1, firstPoint)

RECURSIVE FirstOfTracks(_, _, _)
FirstOfTracks(tracks, k, firstPoint) ==
    IF k > Len(tracks) THEN firstPoint
    ELSE LET fp == FirstOfSegments(tracks[k].Segments, 1, firstPoint) IN
         IF fp.Latitude # 0 THEN fp ELSE FirstOfTracks(tracks, k + 1, fp)

FirstPoint(tracks) == FirstOfTracks(tracks, 1, ZeroPoint)

\* "Get last point of previous ride"
LastPoint(points) ==
    IF Len(points) > 0 THEN points[Len(points)] ELSE ZeroPoint

\* (a + b) / 2 on float64
Sum(a, b) == a + b

Midpoint(a, b) == (a + b) \div 2

GapPoint(lastPoint, firstPoint) ==
    [Latitude |-> Midpoint(lastPoint.Latitude, firstPoint.Latitude),
     Longitude |-> Midpoint(lastPoint.Longitude, firstPoint.Longitude),
     Elevation |-> 0, Time |-> NoTime, Name |-> GapName, Desc |-> GapDesc]

\* "Add a waypoint marking the gap"
GapPointsAlways(lastPoint, firstPoint) == <<GapPoint(lastPoint, firstPoint)>>

GapPoints(lastPoint, firstPoint) ==
    IF lastPoint.Latitude # 0 /\ firstPoint.Latitude # 0
    THEN <<GapPoint(lastPoint, firstPoint)>>
    ELSE <<>>

\* "Add all points from current ride"
RECURSIVE PointsOfSegments(_)
PointsOfSegments(segments) ==
    IF segments = <<>> THEN <<>>
    ELSE Head(segments).Points \o PointsOfSegments(Tail(segments))

RECURSIVE PointsOfTracks(_)
PointsOfTracks(tracks) ==
    IF tracks = <<>> THEN <<>>
    ELSE PointsOfSegments(Head(tracks).Segments) \o PointsOfTracks(Tail(tracks))

\* The connectGaps branch: `for i, ride := range rides`, from ride i on,
\* with the points of mergedSegment so far.
RECURSIVE ConnectFrom(_, _, _)
ConnectFrom(rs, i, points) ==
    IF i > Len(rs) THEN points
    ELSE LET gap == IF i > 1
                    THEN GapPoints(LastPoint(points), FirstPoint(rs[i].GPX))
                    ELSE <<>>
         IN  ConnectFrom(rs, i + 1, points \o gap \o PointsOfTracks(rs[i].GPX))

MergeConnected(rs) == <<TrackSegment(ConnectFrom(rs, 1, <<>>))>>

\* The other branch: "Add each segment individually to preserve breaks"
RECURSIVE SegmentsOfTracks(_)
SegmentsOfTracks(tracks) ==
    IF tracks = <<>> THEN <<>>
    ELSE Head(tracks).Segments \o SegmentsOfTracks(Tail(tracks))

RECURSIVE FirstTrackOnly(_)
FirstTrackOnly(rs) ==
    IF rs = <<>> THEN <<>>
    ELSE (IF Head(rs).GPX = <<>> THEN <<>> ELSE Head(rs).GPX[1].Segments)
         \o FirstTrackOnly(Tail(rs))

RECURSIVE MergeDisconnected(_)
MergeDisconnected(rs) ==
    IF rs = <<>> THEN <<>>
    ELSE SegmentsOfTracks(Head(rs).GPX) \o MergeDisconnected(Tail(rs))

MergeRides ==
    /\ pc = "merge"
    /\ mergedTrack' = IF connectGaps THEN MergeConnected(rides)
                      ELSE MergeDisconnected(rides)
    /\ pc' = "write"
    /\ UNCHANGED <<args, connectGaps, tours, outFile, startDate, endDate,
                   gpxFiles, fileIdx, rides, stdout, logged, exit>>
    /\ UNCHANGED <<cvars, dvars>>

\* mergedGPX.Tracks = []Track{mergedTrack}
MergedTracks == <<Track(MergedName(args), mergedTrack)>>

\* xml.MarshalIndent fails
MarshalFails ==
    /\ pc = "write"
    /\ logged' = Append(logged, Msg("Error marshaling GPX", 0))
    /\ exit' = 1
    /\ pc' = "done"
    /\ UNCHANGED <<args, connectGaps, tours, outFile, startDate, endDate,
                   gpxFiles, fileIdx, rides, mergedTrack, stdout>>
    /\ UNCHANGED <<cvars, dvars>>

\* os.WriteFile fails: the file is as it was, or was truncated on open
WriteFails ==
    /\ pc = "write"
    /\ outFile' \in {outFile, [state |-> "truncated", tracks |-> <<>>]}
    /\ logged' = Append(logged, Msg("Error writing output file", 0))
    /\ exit' = 1
    /\ pc' = "done"
    /\ UNCHANGED <<args, connectGaps, tours, startDate, endDate,
                   gpxFiles, fileIdx, rides, mergedTrack, stdout>>
    /\ UNCHANGED <<cvars, dvars>>

\* os.WriteFile succeeds, then the summary is printed and main returns
WriteOutput ==
    /\ pc = "write"
    /\ outFile' = OutWritten(MergedTracks)
    /\ stdout' = Append(stdout, Msg("Merged rides", Len(rides)))
    /\ exit' = 0
    /\ pc' = "done"
    /\ UNCHANGED <<args, connectGaps, tours, startDate, endDate,
                   gpxFiles, fileIdx, rides, mergedTrack, logged>>
    /\ UNCHANGED <<cvars, dvars>>

MergeNext ==
    \/ ParseArgs
    \/ WalkFails
    \/ WalkTours
    \/ ScanFile
    \/ NoRides
    \/ SortRides
    \/ MergeRides
    \/ MarshalFails
    \/ WriteFails
    \/ WriteOutput

MergeSpec == MergeInit /\ [][MergeNext]_vars

\* ------------------------------------------- merger: what is claimed
\* A document's points in document order: its tracks in order, the segments
\* of a track in order, the points of a segment in order.
RECURSIVE Concat(_, _)
Concat(seqs, k) ==
    IF k > Len(seqs) THEN <<>> ELSE seqs[k] \o Concat(seqs, k + 1)

TrackPoints(track) ==
    Concat([si \in DOMAIN track.Segments |-> track.Segments[si].Points], 1)

DocPoints(tracks) ==
    Concat([ti \in DOMAIN tracks |-> TrackPoints(tracks[ti])], 1)

LexLeq(x, y) ==
    \/ x[1] < y[1]
    \/ x[1] = y[1] /\ x[2] < y[2]
    \/ x[1] = y[1] /\ x[2] = y[2] /\ x[3] <= y[3]

Least(S) == CHOOSE x \in S : \A y \in S : x <= y

\* The document's derived timestamp: that of the first point, in document
\* order, whose timestamp is in the fixed layout; none if there is no such
\* point.
Derivation(tracks) ==
    LET P == DocPoints(tracks)
        stamped == {r \in DOMAIN P : P[r].Time.layout = MillisLayout}
    IN  IF stamped = {} THEN [has |-> FALSE, t |-> 0]
        ELSE [has |-> TRUE, t |-> P[Least(stamped)].Time.inst]

HasDerived(tracks) == Derivation(tracks).has

Derived(tracks) == Derivation(tracks).t

\* The points that carry any timestamp string at all.
NonEmptyStamps(tracks) ==
    {r \in DOMAIN DocPoints(tracks) : DocPoints(tracks)[r].Time.layout # ""}

\* The window the arguments ask for, in ticks.
WindowOpens == args[1].day * TicksPerDay

WindowCloses == (args[2].day + 1) * TicksPerDay

\* Files the parse loop is through with, and the files of the rides kept.
Processed == 1..(fileIdx - 1)

RidePaths == {rides[k].FilePath : k \in 1..Len(rides)}

Usable(f) == tours[f].kind = "gpx" /\ HasDerived(tours[f].Tracks)

InRange(f) ==
    /\ tours[f].kind = "gpx"
    /\ LET d == Derivation(tours[f].Tracks)
       IN  d.has /\ WindowOpens < d.t /\ d.t < WindowCloses

RideDoc(k) == tours[rides[k].FilePath].Tracks

\* The positions <<ride, track, segment>> of the rides' segments.
SegmentPositions ==
    UNION { UNION { { <<k, ti, si>> : si \in 1..Len(RideDoc(k)[ti].Segments) }
                    : ti \in 1..Len(RideDoc(k)) }
            : k \in 1..Len(rides) }

SegmentRank(x) == Cardinality({y \in SegmentPositions : LexLeq(y, x)})

\* C1: without -connect, the merged track's segments are exactly the segments
\* of the files that parse and whose derived timestamp is inside the window,
\* each file once, rides in ascending timestamp order, every track's segments
\* in document order with their boundaries and points untouched; the written
\* file holds that one track.
C1_DisconnectedIsConcatenation ==
    /\ (pc = "write" /\ ~connectGaps) =>
          /\ RidePaths = {f \in 1..Len(tours) : InRange(f)}
          /\ Len(rides) = Cardinality(RidePaths)
          /\ \A k \in 1..(Len(rides) - 1) :
                Derived(RideDoc(k)) <= Derived(RideDoc(k + 1))
          /\ Len(mergedTrack) = Cardinality(SegmentPositions)
          /\ \A x \in SegmentPositions :
                mergedTrack[SegmentRank(x)] = RideDoc(x[1])[x[2]].Segments[x[3]]
    /\ (pc = "done" /\ outFile.state = "written") =>
          /\ Len(outFile.tracks) = 1
          /\ outFile.tracks[1].Segments = mergedTrack

\* Three files, one of them left out, two rides merged against walk order, one
\* of them with more than one segment.
C1_Witness ==
    /\ pc = "write"
    /\ ~connectGaps
    /\ Len(tours) = 3
    /\ Len(rides) = 2
    /\ rides[1].FilePath > rides[2].FilePath
    /\ Len(mergedTrack) >= 3

\* C2: a file with a derived timestamp t becomes a ride if and only if
\* start-date 00:00:00 < t < (end-date + 1 day) 00:00:00, and the ride's date
\* is t.
C2_WindowIsOpenInterval ==
    /\ \A f \in Processed :
          tours[f].kind = "gpx" =>
             LET d == Derivation(tours[f].Tracks) IN
             d.has => (f \in RidePaths <=> (WindowOpens < d.t /\ d.t < WindowCloses))
    /\ \A k \in 1..Len(rides) : rides[k].Date = Derived(RideDoc(k))

\* A ride at 23:59:59 of the end date is kept and one at 00:00:00 of the day
\* after is not.
C2_Witness ==
    \E f, g \in Processed :
        /\ Usable(f) /\ Usable(g)
        /\ Derived(tours[f].Tracks) = WindowCloses - 1
        /\ f \in RidePaths
        /\ Derived(tours[g].Tracks) = WindowCloses
        /\ g \notin RidePaths

\* C3 (as claimed): every file whose derived timestamp falls on the start
\* date, 00:00:00.000 included, becomes a ride.
C3_StartDateInclusive ==
    \A f \in Processed :
        (/\ Usable(f)
         /\ WindowOpens <= Derived(tours[f].Tracks)
         /\ Derived(tours[f].Tracks) < WindowOpens + TicksPerDay)
        => f \in RidePaths

\* C4 (as claimed): the derived timestamp is that of the first point whose
\* timestamp string is non-empty; a file without one, or whose first one does
\* not parse, contributes no ride.
C4_FirstNonEmptyTimestampDecides ==
    \A f \in Processed :
        tours[f].kind = "gpx" =>
            LET stamps == NonEmptyStamps(tours[f].Tracks)
                first == DocPoints(tours[f].Tracks)[Least(stamps)].Time
            IN  /\ (stamps = {} \/ first.layout # MillisLayout) => f \notin RidePaths
                /\ \A k \in 1..Len(rides) :
                      rides[k].FilePath = f => rides[k].Date = first.inst

\* C5, C6: the points of ride k in document order, and where they start in
\* the single segment when every boundary has its connector.
RidePoints(k) == DocPoints(RideDoc(k))

RECURSIVE PointsBefore(_)
PointsBefore(k) ==
    IF k = 1 THEN 0 ELSE PointsBefore(k - 1) + Len(RidePoints(k - 1)) + 1

BoundaryNonZero(k) ==
    /\ RidePoints(k)[Len(RidePoints(k))].Latitude # 0
    /\ RidePoints(k + 1)[1].Latitude # 0

\* C5: with -connect and no boundary point on latitude 0, the one segment is
\* ride 1, connector, ride 2, ..., ride N: N - 1 connectors named
\* "Gap Connection", each the midpoint of the points on either side of it.
C5_ConnectedIsRidesAndMidpoints ==
    (/\ pc = "write"
     /\ connectGaps
     /\ \A k \in 1..(Len(rides) - 1) : BoundaryNonZero(k))
    => /\ Len(mergedTrack) = 1
       /\ LET out == mergedTrack[1].Points
              N == Len(rides)
          IN  /\ Len(out) = PointsBefore(N) + Len(RidePoints(N))
              /\ \A k \in 1..N :
                    SubSeq(out, PointsBefore(k) + 1,
                           PointsBefore(k) + Len(RidePoints(k))) = RidePoints(k)
              /\ \A k \in 2..N :
                    LET gap == out[PointsBefore(k)]
                        prev == RidePoints(k - 1)[Len(RidePoints(k - 1))]
                        next == RidePoints(k)[1]
                    IN  /\ gap.Name = "Gap Connection"
                        /\ 2 * gap.Latitude = prev.Latitude + next.Latitude
                        /\ 2 * gap.Longitude = prev.Longitude + next.Longitude

\* Three rides, merged against walk order, one of them with two tracks.
C5_Witness ==
    /\ pc = "write"
    /\ connectGaps
    /\ Len(rides) = 3
    /\ rides[1].FilePath # 1
    /\ \A k \in 1..2 : BoundaryNonZero(k)
    /\ \E k \in 1..3 : Len(RideDoc(k)) = 2
    /\ Len(mergedTrack[1].Points) = 8

\* C6 (as claimed): with -connect, where the last point of a ride or the
\* first point of the next one has latitude 0, the point that follows the
\* ride's last point in the output is no connector.
C6_NoConnectorAtLatitudeZero ==
    (pc = "write" /\ connectGaps) =>
        \A k \in 1..(Len(rides) - 1) :
            ~BoundaryNonZero(k) =>
                LET out == mergedTrack[1].Points IN
                \A p \in 1..(Len(out) - 1) :
                    out[p] = RidePoints(k)[Len(RidePoints(k))]
                        => out[p + 1].Name # "Gap Connection"

\* C7: a file that cannot be read or parsed, or has no usable timestamp, is
\* passed over: the parse loop goes through every file without ending the
\* run, the rides it leaves are those of the usable files alone, in walk
\* order, and a failure status comes only from the arguments, the dates, the
\* directory walk, or marshalling and writing the output.
FatalMessages ==
    {"Usage", "Invalid start date format", "Invalid end date format",
     "Error walking tours directory", "Error marshaling GPX",
     "Error writing output file"}

LastMessage(log) == log[Len(log)].msg

C7_PerFileFailuresAreSkipped ==
    /\ pc = "scan" => exit = -1
    /\ (pc = "scan" /\ fileIdx > Len(gpxFiles)) =>
          /\ Len(gpxFiles) = Len(tours)
          /\ RidePaths = {f \in 1..Len(tours) : InRange(f)}
          /\ Len(rides) = Cardinality(RidePaths)
          /\ \A k \in 1..(Len(rides) - 1) : rides[k].FilePath < rides[k + 1].FilePath
          /\ \A k \in 1..Len(rides) :
                /\ rides[k].GPX = RideDoc(k)
                /\ rides[k].Date = Derived(RideDoc(k))
    /\ exit = 1 =>
          \/ /\ stdout # <<>>
             /\ LastMessage(stdout) = "Usage"
          \/ /\ logged # <<>>
             /\ LastMessage(logged) \in FatalMessages

\* The loop is through three files, one unreadable or malformed or without a
\* timestamp, and two rides are left.
C7_Witness ==
    /\ pc = "scan"
    /\ fileIdx > Len(gpxFiles)
    /\ Len(tours) = 3
    /\ \E f \in 1..3 : ~Usable(f)
    /\ Len(rides) = 2

\* C8: the output file is touched only by the final write, and when the
\* parse loop ends with no ride the run reports it and ends with status 0,
\* the file at the output path being what it was.
C8_NoRidesLeavesOutputAlone ==
    [][ /\ pc # "write" => outFile' = outFile
        /\ (pc = "scan" /\ fileIdx > Len(gpxFiles) /\ Len(rides) = 0) =>
              /\ pc' = "done"
              /\ exit' = 0
              /\ stdout' = Append(stdout, Msg("No rides found", 0))
      ]_vars

\* Files were there, none of them in range, and the old output file stands.
C8_Witness ==
    /\ pc = "done"
    /\ exit = 0
    /\ Len(tours) > 0
    /\ stdout # <<>>
    /\ LastMessage(stdout) = "No rides found"
    /\ outFile = OutOld

\* --------------------------------------------- converter: the inputs
\* The merger, not run.
MergeIdle ==
    /\ args = <<>>
    /\ connectGaps = FALSE
    /\ tours = <<>>
    /\ outFile = OutAbsent
    /\ pc = "idle"
    /\ startDate = 0
    /\ endDate = 0
    /\ gpxFiles = <<>>
    /\ fileIdx = 1
    /\ rides = <<>>
    /\ mergedTrack = <<>>
    /\ stdout = <<>>
    /\ logged = <<>>
    /\ exit = -1

\* Point pi of segment si of track ti: its longitude tells where it is, its
\* elevation is 0 (or absent) for the first point of a segment only.
GpxPoint(ti, si, pi, name, desc) ==
    [Latitude |-> 2 * pi, Longitude |-> 2 * (100 * ti + 10 * si + pi),
     Elevation |-> IF pi = 1 THEN 0 ELSE 6,
     Time |-> NoTime, Name |-> name, Desc |-> desc]

\* Segments: without points, of two points, of five points, and of three
\* points the second of which is a connector, each with its own description.
SegmentKinds == {"empty", "short", "long", "marked"}

SegmentOfKind(kind, ti, si) ==
    TrackSegment(
        CASE kind = "empty" -> <<>>
          [] kind = "short" -> [pi \in 1..2 |-> GpxPoint(ti, si, pi, "", "")]
          [] kind = "long" -> [pi \in 1..5 |-> GpxPoint(ti, si, pi, "", "")]
          [] kind = "marked" ->
                [pi \in 1..3 |->
                    IF pi = 2
                    THEN GpxPoint(ti, si, pi, GapName,
                                  GapDesc \o " " \o ToString(10 * ti + si))
                    ELSE GpxPoint(ti, si, pi, "", "")])

TrackNames == {"", "Morning Ride"}

\* The documents of at most t tracks and at most s segments in all, each as
\* the names of its tracks and the kinds of their segments.
TrackShapes(n) ==
    {[name |-> nm, kinds |-> ks] : nm \in TrackNames, ks \in [1..n -> SegmentKinds]}

RECURSIVE DocShapes(_, _)
DocShapes(t, s) ==
    {<<>>} \cup
    (IF t = 0 THEN {}
     ELSE UNION { { <<tr>> \o rest : tr \in TrackShapes(n),
                                     rest \in DocShapes(t - 1, s - n) }
                  : n \in 0..s })

DocOfShape(shape) ==
    [ti \in DOMAIN shape |->
        Track(shape[ti].name,
              [si \in DOMAIN shape[ti].kinds |->
                  SegmentOfKind(shape[ti].kinds[si], ti, si)])]

ConvInit ==
    /\ MergeIdle
    /\ DownIdle
    /\ \/ /\ cvArgs = 2
          /\ \E shape \in DocShapes(MaxTracks, MaxSegments) :
                cvInput = GpxFile(DocOfShape(shape))
       \/ /\ cvArgs = 2
          /\ cvInput \in {UnreadableFile, MalformedFile}
       \/ /\ cvArgs \in {1, 3}
          /\ cvInput = GpxFile(<<>>)
    /\ showWaypoints \in BOOLEAN
    /\ kmlFile \in IF cvInput.kind = "gpx" /\ Len(cvInput.Tracks) > 1
                   THEN {OutOld}
                   ELSE {OutAbsent, OutOld}
    /\ cvPc = "args"
    /\ gpx = <<>>
    /\ trackIdx = 1
    /\ segIdx = 1
    /\ trackNum = 0
    /\ placemarks = <<>>
    /\ cvLogged = <<>>
    /\ cvExit = -1

\* -------------------------------------------- converter: the program
\* fmt.Sprintf("%f,%f", lon, lat), with the elevation if it is not 0
CoordStrLatFirst(point) ==
    IF point.Elevation # 0
    THEN <<point.Latitude, point.Longitude, point.Elevation>>
    ELSE <<point.Latitude, point.Longitude>>

CoordStr(point) ==
    IF point.Elevation # 0
    THEN <<point.Longitude, point.Latitude, point.Elevation>>
    ELSE <<point.Longitude, point.Latitude>>

\* fmt.Sprintf("%f,%f,%f", lon, lat, ele)
PointCoordStr(point) == <<point.Longitude, point.Latitude, point.Elevation>>

Placemark(name, description, style, geometry, coordinates) ==
    [Name |-> name, Description |-> description, StyleURL |-> style,
     Geometry |-> geometry, Coordinates |-> coordinates]

\* "Add waypoint for gap connection if requested", over the points from k on
RECURSIVE WaypointsAlways(_, _)
WaypointsAlways(points, k) ==
    IF k > Len(points) THEN <<>>
    ELSE (IF points[k].Name = GapName
          THEN <<Placemark(GapName, points[k].Desc, "", "Point",
                           <<PointCoordStr(points[k])>>)>>
          ELSE <<>>)
         \o WaypointsAlways(points, k + 1)

RECURSIVE Waypoints(_, _)
Waypoints(points, k) ==
    IF k > Len(points) THEN <<>>
    ELSE (IF points[k].Name = GapName /\ showWaypoints
          THEN <<Placemark(GapName, points[k].Desc, "", "Point",
                           <<PointCoordStr(points[k])>>)>>
          ELSE <<>>)
         \o Waypoints(points, k + 1)

\* isGapSegment: a point named "Gap Connection", or at most two coordinates
\* in a segment that is neither the first nor the last of its track (k is the
\* 1-based index: segIdx + 1).
IsGapSegmentMarkerOnly(points, k, n) ==
    \E i \in 1..Len(points) : points[i].Name = GapName

IsGapSegment(points, k, n) ==
    \/ \E i \in 1..Len(points) : points[i].Name = GapName
    \/ Len(points) <= 2 /\ k - 1 > 0 /\ k - 1 < n - 1

\* The placemark's name, num being trackNum after its increment
PlacemarkName(track, k, num) ==
    LET name == IF track.Name = "" THEN "Track " \o ToString(num) ELSE track.Name
    IN  IF Len(track.Segments) > 1
        THEN name \o " - Segment " \o ToString(k)
        ELSE name

\* The first track from k on that has a segment: where the loops go next
RECURSIVE TrackFrom(_, _)
TrackFrom(tracks, k) ==
    IF k > Len(tracks) \/ Len(tracks[k].Segments) > 0 THEN k
    ELSE TrackFrom(tracks, k + 1)

\* Arguments, os.ReadFile, xml.Unmarshal; the KML document and its styles
ConvStart ==
    /\ cvPc = "args"
    /\ IF cvArgs # 2
       THEN /\ cvLogged' = Append(cvLogged, Msg("Usage", 0))
            /\ cvExit' = 1
            /\ cvPc' = "done"
            /\ UNCHANGED <<gpx, trackIdx>>
       ELSE IF cvInput.kind = "unreadable"
       THEN /\ cvLogged' = Append(cvLogged, Msg("Error reading GPX file", 0))
            /\ cvExit' = 1
            /\ cvPc' = "done"
            /\ UNCHANGED <<gpx, trackIdx>>
       ELSE IF cvInput.kind = "malformed"
       THEN /\ cvLogged' = Append(cvLogged, Msg("Error parsing GPX", 0))
            /\ cvExit' = 1
            /\ cvPc' = "done"
            /\ UNCHANGED <<gpx, trackIdx>>
       ELSE /\ gpx' = cvInput.Tracks
            /\ trackIdx' = TrackFrom(cvInput.Tracks, 1)
            /\ cvPc' = "convert"
            /\ UNCHANGED <<cvLogged, cvExit>>
    /\ UNCHANGED <<cvArgs, showWaypoints, cvInput, segIdx, trackNum,
                   placemarks, kmlFile>>
    /\ UNCHANGED <<mvars, dvars>>

\* One iteration of `for segIdx, segment := range track.Segments`
ConvertSegment ==
    /\ cvPc = "convert"
    /\ trackIdx <= Len(gpx)
    /\ LET track == gpx[trackIdx]
           points == track.Segments[segIdx].Points
           num == IF track.Name = "" THEN trackNum + 1 ELSE trackNum
           isGap == IsGapSegment(points, segIdx, Len(track.Segments))
           line == Placemark(PlacemarkName(track, segIdx, num),
                             IF isGap THEN "Gap connection" ELSE "",
                             IF isGap THEN "#gap" ELSE "#normal",
                             "LineString",
                             [i \in 1..Len(points) |-> CoordStr(points[i])])
       IN  /\ IF Len(points) = 0
              THEN UNCHANGED <<trackNum, placemarks>>
              ELSE /\ trackNum' = num
                   /\ placemarks' = placemarks \o Waypoints(points, 1) \o <<line>>
           /\ IF segIdx < Len(track.Segments)
              THEN /\ segIdx' = segIdx + 1
                   /\ UNCHANGED trackIdx
              ELSE /\ segIdx' = 1
                   /\ trackIdx' = TrackFrom(gpx, trackIdx + 1)
    /\ UNCHANGED <<cvArgs, showWaypoints, cvInput, cvPc, gpx, kmlFile,
                   cvLogged, cvExit>>
    /\ UNCHANGED <<mvars, dvars>>

\* xml.MarshalIndent fails
KmlMarshalFails ==
    /\ cvPc = "convert"
    /\ trackIdx > Len(gpx)
    /\ cvLogged' = Append(cvLogged, Msg("Error marshaling KML", 0))
    /\ cvExit' = 1
    /\ cvPc' = "done"
    /\ UNCHANGED <<cvArgs, showWaypoints, cvInput, gpx, trackIdx, segIdx,
                   trackNum, placemarks, kmlFile>>
    /\ UNCHANGED <<mvars, dvars>>

\* os.WriteFile fails: the file is as it was, or was truncated on open
KmlWriteFails ==
    /\ cvPc = "convert"
    /\ trackIdx > Len(gpx)
    /\ kmlFile' \in {kmlFile, [state |-> "truncated", tracks |-> <<>>]}
    /\ cvLogged' = Append(cvLogged, Msg("Error writing KML file", 0))
    /\ cvExit' = 1
    /\ cvPc' = "done"
    /\ UNCHANGED <<cvArgs, showWaypoints, cvInput, gpx, trackIdx, segIdx,
                   trackNum, placemarks>>
    /\ UNCHANGED <<mvars, dvars>>

\* os.WriteFile succeeds, the summary is printed and main returns
KmlWrite ==
    /\ cvPc = "convert"
    /\ trackIdx > Len(gpx)
    /\ kmlFile' = [state |-> "written", tracks |-> placemarks]
    /\ cvLogged' = Append(cvLogged, Msg("Converted", Len(gpx)))
    /\ cvExit' = 0
    /\ cvPc' = "done"
    /\ UNCHANGED <<cvArgs, showWaypoints, cvInput, gpx, trackIdx, segIdx,
                   trackNum, placemarks>>
    /\ UNCHANGED <<mvars, dvars>>

ConvNext ==
    \/ ConvStart
    \/ ConvertSegment
    \/ KmlMarshalFails
    \/ KmlWriteFails
    \/ KmlWrite

ConvSpec == ConvInit /\ [][ConvNext]_vars

\* ------------------------------------------ converter: what is claimed
\* The non-empty segments the loops have been through, as <<track, segment>>
Converted ==
    {c \in UNION {{<<ti, si>> : si \in 1..Len(gpx[ti].Segments)} : ti \in 1..Len(gpx)} :
        /\ Len(gpx[c[1]].Segments[c[2]].Points) > 0
        /\ \/ c[1] < trackIdx
           \/ c[1] = trackIdx /\ c[2] < segIdx}

\* The line placemarks of a segment: those that begin at its first point
\* (no two points of a document share a longitude)
LinesOf(c) ==
    {k \in 1..Len(placemarks) :
        /\ placemarks[k].Geometry = "LineString"
        /\ placemarks[k].Coordinates[1][1]
              = gpx[c[1]].Segments[c[2]].Points[1].Longitude}

HasMarker(c) ==
    \E i \in 1..Len(gpx[c[1]].Segments[c[2]].Points) :
        gpx[c[1]].Segments[c[2]].Points[i].Name = "Gap Connection"

ShortAndInside(c) ==
    /\ Len(gpx[c[1]].Segments[c[2]].Points) <= 2
    /\ c[2] # 1
    /\ c[2] # Len(gpx[c[1]].Segments)

\* C9: a non-empty segment has one line placemark, which references "#gap"
\* and is described as "Gap connection" if and only if one of its points is
\* named "Gap Connection" or it has at most two points and is neither the
\* first nor the last segment of its track, empty segments counted; otherwise
\* it references "#normal" and has no description.
C9_GapClassification ==
    \A c \in Converted :
        /\ Cardinality(LinesOf(c)) = 1
        /\ \A k \in LinesOf(c) :
              IF HasMarker(c) \/ ShortAndInside(c)
              THEN /\ placemarks[k].StyleURL = "#gap"
                   /\ placemarks[k].Description = "Gap connection"
              ELSE /\ placemarks[k].StyleURL = "#normal"
                   /\ placemarks[k].Description = ""

\* A track of three segments has been converted: the first has three points,
\* one of them the marker, and is a gap; the second has two points and no
\* marker and is a gap; the third has five points, no marker, and is normal.
C9_Witness ==
    /\ cvPc = "done"
    /\ cvExit = 0
    /\ Len(gpx) = 1
    /\ Len(gpx[1].Segments) = 3
    /\ Converted = {<<1, 1>>, <<1, 2>>, <<1, 3>>}
    /\ HasMarker(<<1, 1>>) /\ Len(gpx[1].Segments[1].Points) = 3
    /\ ~HasMarker(<<1, 2>>) /\ ShortAndInside(<<1, 2>>)
    /\ ~HasMarker(<<1, 3>>) /\ ~ShortAndInside(<<1, 3>>)
    /\ \A k \in LinesOf(<<1, 1>>) \cup LinesOf(<<1, 2>>) :
          placemarks[k].StyleURL = "#gap"
    /\ \A k \in LinesOf(<<1, 3>>) : placemarks[k].StyleURL = "#normal"

\* The unnamed tracks met up to track ti, those without any point left out
UnnamedUpTo(ti) ==
    Cardinality({j \in 1..ti :
        /\ gpx[j].Name = ""
        /\ \E si \in 1..Len(gpx[j].Segments) : Len(gpx[j].Segments[si].Points) > 0})

ClaimedName(c) ==
    LET track == gpx[c[1]]
        base == IF track.Name # "" THEN track.Name
                ELSE "Track " \o ToString(UnnamedUpTo(c[1]))
    IN  IF Len(track.Segments) > 1
        THEN base \o " - Segment " \o ToString(c[2])
        ELSE base

\* C10: the line placemark of a segment of a named track has the track's
\* name, that of a segment of an unnamed track has "Track N", N being the
\* number of unnamed tracks met so far and so the same for all segments of
\* the track; " - Segment K" follows when the track has more than one
\* segment, K being the segment's 1-based index in its track.
C10_PlacemarkNaming ==
    \A c \in Converted :
        \A k \in LinesOf(c) : placemarks[k].Name = ClaimedName(c)

\* The line placemarks, in the order they were appended
Lines == SelectSeq(placemarks, LAMBDA pm : pm.Geometry = "LineString")

\* The place of a converted segment among the converted ones, in document
\* order: tracks in order, segments in order within a track
DocRank(c) ==
    Cardinality({d \in Converted :
        \/ d[1] < c[1]
        \/ d[1] = c[1] /\ d[2] <= c[2]})

NonEmptySegments ==
    {c \in UNION {{<<ti, si>> : si \in 1..Len(gpx[ti].Segments)} : ti \in 1..Len(gpx)} :
        Len(gpx[c[1]].Segments[c[2]].Points) > 0}

\* C11: there is one line placemark per segment with a point and none for a
\* segment without; the line placemarks are in document order, and the
\* coordinate list of each has one entry per point of its segment, in point
\* order; a run that succeeds has been through every segment and has written
\* these placemarks.
C11_OneLinePerNonEmptySegment ==
    /\ Len(Lines) = Cardinality(Converted)
    /\ \A c \in Converted :
          LET line == Lines[DocRank(c)]
              points == gpx[c[1]].Segments[c[2]].Points
          IN  /\ Len(line.Coordinates) = Len(points)
              /\ \A i \in 1..Len(points) :
                    /\ line.Coordinates[i][1] = points[i].Longitude
                    /\ line.Coordinates[i][2] = points[i].Latitude
                    /\ Len(line.Coordinates[i]) = 3
                          => line.Coordinates[i][3] = points[i].Elevation
    /\ cvExit = 0 =>
          /\ Converted = NonEmptySegments
          /\ kmlFile = [state |-> "written", tracks |-> placemarks]

\* A document of two tracks has been converted: the first has a segment
\* without points and then one with points, the second has one segment with
\* points, and there are two line placemarks, the second track's last.
C11_Witness ==
    /\ cvPc = "done"
    /\ cvExit = 0
    /\ Len(gpx) = 2
    /\ Len(gpx[1].Segments) = 2
    /\ Len(gpx[2].Segments) = 1
    /\ NonEmptySegments = {<<1, 2>>, <<2, 1>>}
    /\ Len(Lines) = 2
    /\ Lines[1].Coordinates[1][1] = gpx[1].Segments[2].Points[1].Longitude
    /\ Lines[2].Coordinates[1][1] = gpx[2].Segments[1].Points[1].Longitude

\* The point placemarks, in the order they were appended
PointMarks == SelectSeq(placemarks, LAMBDA pm : pm.Geometry = "Point")

\* The points named "Gap Connection" the loops have been through, as
\* <<track, segment, point>>
Markers ==
    UNION {{<<c[1], c[2], pi>> : pi \in
                {i \in 1..Len(gpx[c[1]].Segments[c[2]].Points) :
                    gpx[c[1]].Segments[c[2]].Points[i].Name = "Gap Connection"}}
           : c \in Converted}

MarkerPoint(m) == gpx[m[1]].Segments[m[2]].Points[m[3]]

\* One named track of one unmarked five-point segment, default flags
SingleRideScenario ==
    /\ ~showWaypoints
    /\ Len(gpx) = 1
    /\ gpx[1].Name # ""
    /\ Len(gpx[1].Segments) = 1
    /\ Len(gpx[1].Segments[1].Points) = 5
    /\ ~HasMarker(<<1, 1>>)

\* C12: with the waypoint option there is one point placemark for each point
\* named "Gap Connection", with that point's description, and without the
\* option there is none; so the placemarks are as many as the non-empty
\* segments plus, with the option, the marker points, and one named track of
\* one unmarked five-point segment gives, by default, one placemark with the
\* track's name and the style "#normal".
C12_PointMarkers ==
    /\ ~showWaypoints => PointMarks = <<>>
    /\ showWaypoints =>
          /\ Len(PointMarks) = Cardinality(Markers)
          /\ \A m \in Markers :
                Cardinality({k \in 1..Len(PointMarks) :
                    /\ PointMarks[k].Coordinates[1][1] = MarkerPoint(m).Longitude
                    /\ PointMarks[k].Description = MarkerPoint(m).Desc}) = 1
    /\ Len(placemarks) = Cardinality(Converted)
                         + (IF showWaypoints THEN Cardinality(Markers) ELSE 0)
    /\ SingleRideScenario /\ cvExit = 0 =>
          /\ Len(placemarks) = 1
          /\ placemarks[1].Geometry = "LineString"
          /\ placemarks[1].Name = gpx[1].Name
          /\ placemarks[1].StyleURL = "#normal"
          /\ kmlFile.tracks = placemarks

\* With the option, a document with two marker points in two segments and a
\* segment without one has been converted to two point placemarks of
\* different descriptions and three line placemarks.
C12_Witness ==
    /\ showWaypoints
    /\ cvPc = "done"
    /\ cvExit = 0
    /\ Cardinality(Markers) = 2
    /\ Cardinality(Converted) = 3
    /\ Len(PointMarks) = 2
    /\ PointMarks[1].Description # PointMarks[2].Description
    /\ Len(placemarks) = 5

\* ------------------------------------- the merger, then the converter
\* xml.MarshalIndent of the merger's document: ele, time, name and desc are
\* `omitempty`, left out when 0 or ""
MarshalPoint(point) ==
    [lat |-> point.Latitude, lon |-> point.Longitude,
     ele |-> IF point.Elevation = 0 THEN <<>> ELSE <<point.Elevation>>,
     time |-> IF point.Time = NoTime THEN <<>> ELSE <<point.Time>>,
     name |-> IF point.Name = "" THEN <<>> ELSE <<point.Name>>,
     desc |-> IF point.Desc = "" THEN <<>> ELSE <<point.Desc>>]

MarshalGpx(tracks) ==
    [ti \in DOMAIN tracks |->
        [name |-> tracks[ti].Name,
         trkseg |-> [si \in DOMAIN tracks[ti].Segments |->
            [pi \in DOMAIN tracks[ti].Segments[si].Points |->
                MarshalPoint(tracks[ti].Segments[si].Points[pi])]]]]

\* xml.Unmarshal into the converter's GpxRoot: an element that is not there
\* leaves the field 0 or ""
UnmarshalPoint(trkpt) ==
    [Latitude |-> trkpt.lat, Longitude |-> trkpt.lon,
     Elevation |-> IF trkpt.ele = <<>> THEN 0 ELSE trkpt.ele[1],
     Time |-> IF trkpt.time = <<>> THEN NoTime ELSE trkpt.time[1],
     Name |-> IF trkpt.name = <<>> THEN "" ELSE trkpt.name[1],
     Desc |-> IF trkpt.desc = <<>> THEN "" ELSE trkpt.desc[1]]

UnmarshalGpx(trks) ==
    [ti \in DOMAIN trks |->
        Track(trks[ti].name,
              [si \in DOMAIN trks[ti].trkseg |->
                  TrackSegment([pi \in DOMAIN trks[ti].trkseg[si] |->
                      UnmarshalPoint(trks[ti].trkseg[si][pi])])])]

\* The converter is started on the file the merger has written
ConvertMerged ==
    /\ pc = "done"
    /\ exit = 0
    /\ outFile.state = "written"
    /\ cvPc = "idle"
    /\ cvArgs' = 2
    /\ cvInput' = GpxFile(UnmarshalGpx(MarshalGpx(outFile.tracks)))
    /\ showWaypoints' \in BOOLEAN
    /\ cvPc' = "args"
    /\ UNCHANGED <<gpx, trackIdx, segIdx, trackNum, placemarks, kmlFile,
                   cvLogged, cvExit>>
    /\ UNCHANGED <<mvars, dvars>>

PipeNext ==
    \/ MergeNext
    \/ ConvertMerged
    \/ ConvNext

PipeSpec == MergeInit /\ [][PipeNext]_vars

\* A point of the converter's document that the merger made, not a ride
Synthesized(point) == point.Name = GapName /\ point.Desc = GapDesc

\* C13: of a file the merger wrote, in either mode, a line placemark has the
\* style "#gap" only if all its points are connectors the merger made, and
\* the line placemark of a segment with a recorded point of a ride has the
\* style "#normal".
C13_GapStyleOnlyForSynthesized ==
    (pc = "done" /\ exit = 0) =>
        \A c \in Converted :
            LET line == Lines[DocRank(c)]
                points == gpx[c[1]].Segments[c[2]].Points
            IN  /\ line.StyleURL = "#gap" =>
                      \A i \in 1..Len(points) : Synthesized(points[i])
                /\ (\E i \in 1..Len(points) : ~Synthesized(points[i])) =>
                      line.StyleURL = "#normal"

\* --------------------------------------------- downloader: the inputs
\* Titles, as their characters: tour 1 has none, the others have one with a
\* character that no file name may have and with spaces around it.
TitleOf(i) == IF i = 1 THEN <<>> ELSE <<" ", "R", ToString(i), "/", "a", " ">>

\* t of FetchTours: id, title, gpx, vectorMapImage, coverImages
Tour(i, hasMap, covers) ==
    [id |-> i,
     title |-> TitleOf(i),
     gpx |-> "https://www.komoot.com/tour/" \o ToString(i) \o "/download",
     vectorMapImage |-> IF hasMap THEN "map" \o ToString(i) ELSE "",
     coverImages |-> [k \in 1..covers |-> "cover" \o ToString(i) \o "." \o ToString(k)]]

\* [^a-zA-Z0-9\-_\s] of sanitizeFilename
Unsafe == {"/"}

\* reg.ReplaceAllString(name, "_")
ReplaceUnsafe(name) ==
    [k \in DOMAIN name |-> IF name[k] \in Unsafe THEN "_" ELSE name[k]]

\* strings.TrimSpace
RECURSIVE TrimSpace(_)
TrimSpace(name) ==
    IF name = <<>> THEN <<>>
    ELSE IF Head(name) = " " THEN TrimSpace(Tail(name))
    ELSE IF name[Len(name)] = " " THEN TrimSpace(SubSeq(name, 1, Len(name) - 1))
    ELSE name

sanitizeFilename(name) == TrimSpace(ReplaceUnsafe(name))

\* dirName of the loop, which filepath.Join puts under toursDir
DirName(t) ==
    IF includeTitleInDir /\ t.title # <<>>
    THEN [id |-> t.id, title |-> sanitizeFilename(t.title)]
    ELSE [id |-> t.id, title |-> <<>>]

\* Listings of n tours: every other tour has a map image, from tour 1 or
\* from tour 2 on, and the numbers of their cover images go round 0..MaxCovers
Listing(n, m, c) ==
    [i \in 1..n |-> Tour(i, (i + m) % 2 = 0, (i + c) % (MaxCovers + 1))]

DownInit ==
    /\ MergeIdle
    /\ ConvIdle
    /\ \E n \in 0..MaxTours, m \in 0..1, c \in 0..MaxCovers :
          listing = Listing(n, m, c)
    /\ includeTitleInDir \in BOOLEAN
    /\ dirs \in SUBSET {DirName(listing[i]) : i \in DOMAIN listing}
    /\ saved = {}
    /\ runs = 1
    /\ dlPc = "login"
    /\ dlTours = <<>>
    /\ dlIdx = 1
    /\ coverIdx = 0
    /\ errs = <<>>
    /\ fetched = <<>>
    /\ dlLogged = <<>>
    /\ dlExit = -1

\* -------------------------------------------- downloader: the program
\* collector.Login(readCredentials())
Login ==
    /\ dlPc = "login"
    /\ \/ /\ dlLogged' = Append(dlLogged, Msg("Login returned", 0))
          /\ dlExit' = 1
          /\ dlPc' = "done"
       \/ /\ dlPc' = "fetch"
          /\ UNCHANGED <<dlLogged, dlExit>>
    /\ UNCHANGED <<listing, includeTitleInDir, dirs, saved, runs, dlTours,
                   dlIdx, coverIdx, errs, fetched>>
    /\ UNCHANGED <<mvars, cvars>>

\* collector.FetchTours: the tours as listed; the cover images of a tour
\* are left out if the request for them fails
FetchTours ==
    /\ dlPc = "fetch"
    /\ \/ /\ dlLogged' = Append(dlLogged, Msg("Fetching tour ids returned", 0))
          /\ dlExit' = 1
          /\ dlPc' = "done"
          /\ UNCHANGED dlTours
       \/ /\ \E ok \in [DOMAIN listing -> BOOLEAN] :
                dlTours' = [i \in DOMAIN listing |->
                               IF ok[i] THEN listing[i]
                               ELSE [listing[i] EXCEPT !.coverImages = <<>>]]
          /\ dlLogged' = Append(dlLogged, Msg("Found tours", Len(listing)))
          /\ dlPc' = "loop"
          /\ UNCHANGED dlExit
    /\ UNCHANGED <<listing, includeTitleInDir, dirs, saved, runs, dlIdx,
                   coverIdx, errs, fetched>>
    /\ UNCHANGED <<mvars, cvars>>

\* _, err := os.Stat(tourDir); err == nil
StatFindsNothing(dir) == FALSE

Stat(dir) == dir \in dirs

\* `for _, tour := range tours` is over: main returns
LoopDone ==
    /\ dlPc = "loop"
    /\ dlIdx > Len(dlTours)
    /\ dlExit' = 0
    /\ dlPc' = "done"
    /\ UNCHANGED <<listing, includeTitleInDir, dirs, saved, runs, dlTours,
                   dlIdx, coverIdx, errs, fetched, dlLogged>>
    /\ UNCHANGED <<mvars, cvars>>

\* "%s already saved": continue
AlreadySaved ==
    /\ dlPc = "loop"
    /\ dlIdx <= Len(dlTours)
    /\ Stat(DirName(dlTours[dlIdx]))
    /\ dlLogged' = Append(dlLogged, Msg("already saved", dlTours[dlIdx].id))
    /\ dlIdx' = dlIdx + 1
    /\ UNCHANGED <<listing, includeTitleInDir, dirs, saved, runs, dlPc,
                   dlTours, coverIdx, errs, fetched, dlExit>>
    /\ UNCHANGED <<mvars, cvars>>

\* os.MkdirAll fails
MkdirFails ==
    /\ dlPc = "loop"
    /\ dlIdx <= Len(dlTours)
    /\ ~Stat(DirName(dlTours[dlIdx]))
    /\ dlLogged' = dlLogged \o
          <<Msg("Downloading tour", dlTours[dlIdx].id),
            Msg("Failed to create download directory", dlTours[dlIdx].id)>>
    /\ dlExit' = 1
    /\ dlPc' = "done"
    /\ UNCHANGED <<listing, includeTitleInDir, dirs, saved, runs, dlTours,
                   dlIdx, coverIdx, errs, fetched>>
    /\ UNCHANGED <<mvars, cvars>>

\* os.MkdirAll, and DownloadTour is entered: var errs []error
MkdirAll ==
    /\ dlPc = "loop"
    /\ dlIdx <= Len(dlTours)
    /\ ~Stat(DirName(dlTours[dlIdx]))
    /\ dlLogged' = Append(dlLogged, Msg("Downloading tour", dlTours[dlIdx].id))
    /\ dirs' = dirs \cup {DirName(dlTours[dlIdx])}
    /\ errs' = <<>>
    /\ dlPc' = "gpx"
    /\ UNCHANGED <<listing, includeTitleInDir, saved, runs, dlTours, dlIdx,
                   coverIdx, fetched, dlExit>>
    /\ UNCHANGED <<mvars, cvars>>

\* errs = append(errs, requests.URL(url).ToFile(<downloadPath>/<file>).Fetch(ctx)):
\* the file is there if the fetch succeeds
FetchToFile(file, ok) ==
    /\ errs' = Append(errs, ~ok)
    /\ fetched' = Append(fetched, [tour |-> dlIdx, file |-> file, failed |-> ~ok])
    /\ saved' = IF ok THEN saved \cup {<<DirName(dlTours[dlIdx]), file>>}
                ELSE saved

\* DownloadTour: t.gpx to tour.gpx
FetchGpx ==
    /\ dlPc = "gpx"
    /\ \E ok \in BOOLEAN : FetchToFile("tour.gpx", ok)
    /\ dlPc' = IF dlTours[dlIdx].vectorMapImage # "" THEN "map" ELSE "covers"
    /\ coverIdx' = 0
    /\ UNCHANGED <<listing, includeTitleInDir, dirs, runs, dlTours, dlIdx,
                   dlLogged, dlExit>>
    /\ UNCHANGED <<mvars, cvars>>

\* DownloadTour: t.vectorMapImage to map.jpg
FetchMap ==
    /\ dlPc = "map"
    /\ \E ok \in BOOLEAN : FetchToFile("map.jpg", ok)
    /\ dlPc' = "covers"
    /\ UNCHANGED <<listing, includeTitleInDir, dirs, runs, dlTours, dlIdx,
                   coverIdx, dlLogged, dlExit>>
    /\ UNCHANGED <<mvars, cvars>>

\* DownloadTour: `for i, img := range t.coverImages`, img to <i>.jpg
FetchCover ==
    /\ dlPc = "covers"
    /\ coverIdx < Len(dlTours[dlIdx].coverImages)
    /\ \E ok \in BOOLEAN : FetchToFile(ToString(coverIdx) \o ".jpg", ok)
    /\ coverIdx' = coverIdx + 1
    /\ UNCHANGED <<listing, includeTitleInDir, dirs, runs, dlPc, dlTours,
                   dlIdx, dlLogged, dlExit>>
    /\ UNCHANGED <<mvars, cvars>>

\* errors.Join(errs...) is not nil
JoinLast(es) == es # <<>> /\ es[Len(es)]

Join(es) == \E i \in 1..Len(es) : es[i]

\* DownloadTour returns an error: log.Fatalf
DownloadFails ==
    /\ dlPc = "covers"
    /\ coverIdx = Len(dlTours[dlIdx].coverImages)
    /\ Join(errs)
    /\ dlLogged' = Append(dlLogged, Msg("Downloading tour failed", dlTours[dlIdx].id))
    /\ dlExit' = 1
    /\ dlPc' = "done"
    /\ UNCHANGED <<listing, includeTitleInDir, dirs, saved, runs, dlTours,
                   dlIdx, coverIdx, errs, fetched>>
    /\ UNCHANGED <<mvars, cvars>>

\* DownloadTour returns nil: time.Sleep, and the next tour
DownloadDone ==
    /\ dlPc = "covers"
    /\ coverIdx = Len(dlTours[dlIdx].coverImages)
    /\ ~Join(errs)
    /\ dlIdx' = dlIdx + 1
    /\ dlPc' = "loop"
    /\ UNCHANGED <<listing, includeTitleInDir, dirs, saved, runs, dlTours,
                   coverIdx, errs, fetched, dlLogged, dlExit>>
    /\ UNCHANGED <<mvars, cvars>>

\* The downloader is started again: directories and files are as the runs
\* before left them
RunAgain ==
    /\ dlPc = "done"
    /\ runs < MaxRuns
    /\ runs' = runs + 1
    /\ dlPc' = "login"
    /\ dlTours' = <<>>
    /\ dlIdx' = 1
    /\ coverIdx' = 0
    /\ errs' = <<>>
    /\ fetched' = <<>>
    /\ dlLogged' = <<>>
    /\ dlExit' = -1
    /\ UNCHANGED <<listing, includeTitleInDir, dirs, saved>>
    /\ UNCHANGED <<mvars, cvars>>

DownNext ==
    \/ Login
    \/ FetchTours
    \/ LoopDone
    \/ AlreadySaved
    \/ MkdirFails
    \/ MkdirAll
    \/ FetchGpx
    \/ FetchMap
    \/ FetchCover
    \/ DownloadFails
    \/ DownloadDone
    \/ RunAgain

DownSpec == DownInit /\ [][DownNext]_vars

\* ----------------------------------------- downloader: what is claimed
\* The fetches of this run for tour i, in the order they were made
FetchesOf(i) == SelectSeq(fetched, LAMBDA f : f.tour = i)

\* DownloadTour was called for tour i in this run and has returned
Returned(i) ==
    /\ FetchesOf(i) # <<>>
    /\ i < dlIdx \/ dlPc = "done"

\* ... and what it returned was an error: main has logged it and exited
ReturnedError(i) ==
    /\ i = dlIdx
    /\ dlPc = "done"
    /\ dlExit = 1
    /\ dlLogged # <<>>
    /\ dlLogged[Len(dlLogged)] = Msg("Downloading tour failed", dlTours[i].id)

\* C14: DownloadTour fetches, in this order, tour.gpx, map.jpg if and only if
\* the tour has a vector map image, and cover image i as <i>.jpg; a fetch
\* that fails does not keep the later ones from being made; and it returns
\* an error if and only if one of the fetches failed.
C14_DownloadTourFetchesAll ==
    \A i \in 1..Len(dlTours) :
        Returned(i) =>
            LET fs == FetchesOf(i)
                t == dlTours[i]
                hasMap == t.vectorMapImage # ""
                first == IF hasMap THEN 2 ELSE 1
            IN  /\ Len(fs) = first + Len(t.coverImages)
                /\ fs[1].file = "tour.gpx"
                /\ hasMap => fs[2].file = "map.jpg"
                /\ hasMap <=> \E k \in 1..Len(fs) : fs[k].file = "map.jpg"
                /\ \A k \in 1..Len(t.coverImages) :
                      fs[first + k].file = ToString(k - 1) \o ".jpg"
                /\ ReturnedError(i) <=> \E k \in 1..Len(fs) : fs[k].failed
                /\ ~ReturnedError(i) => i < dlIdx

\* DownloadTour has returned an error for a tour with a map image and a cover
\* image: the fetch of tour.gpx failed, and those of map.jpg and 0.jpg were
\* made after it and succeeded.
C14_Witness ==
    /\ dlPc = "done"
    /\ dlIdx <= Len(dlTours)
    /\ ReturnedError(dlIdx)
    /\ dlTours[dlIdx].vectorMapImage # ""
    /\ Len(dlTours[dlIdx].coverImages) = 1
    /\ FetchesOf(dlIdx) =
          <<[tour |-> dlIdx, file |-> "tour.gpx", failed |-> TRUE],
            [tour |-> dlIdx, file |-> "map.jpg", failed |-> FALSE],
            [tour |-> dlIdx, file |-> "0.jpg", failed |-> FALSE]>>
    /\ <<DirName(dlTours[dlIdx]), "0.jpg">> \in saved

\* The tours this run has come to, in the order it came to them
Handled ==
    SelectSeq(dlLogged, LAMBDA l : l.msg \in {"already saved", "Downloading tour"})

\* The files in a directory
FilesIn(dir, files) == {f \in files : f[1] = dir}

\* DownloadTour is writing into the directory
Downloading(dir, at, i, ts) ==
    /\ at \in {"gpx", "map", "covers"}
    /\ dir = DirName(ts[i])

\* Of every state: the tours are taken one after the other in listing order;
\* once a fetch or a directory creation has failed no later tour is come to;
\* the directory of the tour whose download failed is there.
SequentialAndAborting ==
    /\ \A k \in 1..Len(Handled) : Handled[k].n = listing[k].id
    /\ Len(Handled) \in {dlIdx - 1, dlIdx}
    /\ \A k \in 1..Len(fetched) :
          /\ fetched[k].tour <= dlIdx
          /\ k > 1 => fetched[k - 1].tour <= fetched[k].tour
          /\ fetched[k].failed => Len(Handled) = fetched[k].tour
    /\ \A i \in 1..Len(dlTours) :
          /\ (\E k \in 1..Len(fetched) : fetched[k].tour = i /\ fetched[k].failed)
                /\ Returned(i) => ReturnedError(i)
          /\ ReturnedError(i) => DirName(dlTours[i]) \in dirs
    /\ (dlLogged # <<>> /\ dlLogged[Len(dlLogged)].msg
            \in {"Failed to create download directory", "Downloading tour failed"})
          => /\ dlPc = "done"
             /\ dlExit = 1
             /\ Len(Handled) = dlIdx

\* Of every step, in this run or a later one: a tour whose directory is there
\* when its turn comes is logged as already saved and passed over; a
\* directory that is there stays; files come into it only while the call of
\* DownloadTour that followed its creation is running, and no such call
\* begins for a directory that is there.
ExistingIsNeverCompleted ==
    /\ (dlPc = "loop" /\ dlIdx <= Len(dlTours) /\ DirName(dlTours[dlIdx]) \in dirs)
          => /\ dlLogged' = Append(dlLogged, Msg("already saved", dlTours[dlIdx].id))
             /\ dlIdx' = dlIdx + 1
             /\ dlPc' = "loop"
             /\ fetched' = fetched
             /\ saved' = saved
    /\ \A dir \in dirs :
          /\ dir \in dirs'
          /\ ~Downloading(dir, dlPc, dlIdx, dlTours)
                => /\ FilesIn(dir, saved') = FilesIn(dir, saved)
                   /\ ~Downloading(dir, dlPc', dlIdx', dlTours')

\* C15: over repeated runs the tours are taken one after the other in listing
\* order; a tour whose directory is there when its turn comes is passed over
\* and nothing is written into it; the first directory creation or download
\* that fails ends the run before any later tour, the directory of the tour
\* whose download failed stays, and every later run takes that tour as
\* already saved and never completes it.
C15_FailedTourIsNeverCompleted ==
    []SequentialAndAborting /\ [][ExistingIsNeverCompleted]_vars

\* A second run has ended well: it passed over the first tour, whose
\* directory an earlier run left with map.jpg but without tour.gpx, and
\* downloaded the second.
C15_Witness ==
    /\ runs = 2
    /\ dlPc = "done"
    /\ dlExit = 0
    /\ Len(dlTours) = 2
    /\ <<DirName(dlTours[1]), "map.jpg">> \in saved
    /\ <<DirName(dlTours[1]), "tour.gpx">> \notin saved
    /\ Handled = <<Msg("already saved", 1), Msg("Downloading tour", 2)>>
    /\ FetchesOf(1) = <<>>
    /\ <<DirName(dlTours[2]), "tour.gpx">> \in saved

=============================================================================
